---- MODULE Spec2Model ----
(***************************************************************************)
(* Model of torchrec/distributed/planner/partitioners.py:                  *)
(*   GreedyPerfPartitioner  (uniform, device and co-host placement)        *)
(*   MemoryBalancedPartitioner (binary search over the per-device HBM cap) *)
(*                                                                         *)
(* Python objects that are shared or copied (Topology objects, the lists   *)
(* of ShardingOption with their mutable shard ranks) live in two heaps     *)
(* indexed by object id, so that copy.deepcopy allocates a new object and  *)
(* an in-place update is seen through every reference to the object.       *)
(***************************************************************************)
EXTENDS Integers, Sequences, FiniteSets, TLC

\* ------------------------------------------------------------------ bounds
\* longest proposal (number of sharding options) drawn in Init
MaxUnits == 3
\* largest max_search_count given to MemoryBalancedPartitioner.__init__
MaxSearchCount == 2

\* ------------------------------------------------------- program constants
\* 1024**2, the unit of the search threshold (line 364)
MiB == 1048576
\* the bracket width under which the search stops: 10 * 1024**2 (line 364)
MinBracket == 10 * MiB
\* Python None: the rank of an unplaced shard (reset_shard_rank) and the
\* value of a reference that holds no object
None == -1

\* ------------------------------------------------------------ value types
\* types.Storage: a two-component resource vector
Storage(h, d) == [hbm |-> h, ddr |-> d]

\* Storage.__add__
StorageAdd(a, b) == Storage(a.hbm + b.hbm, a.ddr + b.ddr)

\* Storage.__sub__
StorageSub(a, b) == Storage(a.hbm - b.hbm, a.ddr - b.ddr)

\* Storage.fits_in
fits_in(a, b) == a.hbm <= b.hbm /\ a.ddr <= b.ddr

\* lexicographic order on pairs of integers (Python tuple comparison)
KeyLess(k1, k2) == k1[1] < k2[1] \/ (k1[1] = k2[1] /\ k1[2] < k2[2])

\* The permutation a stable ascending sort applies to a list whose i-th
\* element has key keys[i]: insertion of element n after every earlier
\* element whose key is not greater.
RECURSIVE SortPerm(_, _)
SortPerm(keys, n) ==
    IF n = 0 THEN << >>
    ELSE LET prev == SortPerm(keys, n - 1)
             pos  == Cardinality({j \in 1..Len(prev) : ~KeyLess(keys[n], keys[prev[j]])})
         IN  SubSeq(prev, 1, pos) \o <<n>> \o SubSeq(prev, pos + 1, Len(prev))

\* list.sort(key=...) / sorted(list, key=...): stable, ascending
sorted(list, keys) ==
    LET perm == SortPerm(keys, Len(list))
    IN  [i \in 1..Len(list) |-> list[perm[i]]]

\* sum of f[x] over a sequence of integers
RECURSIVE SeqSum(_)
SeqSum(s) == IF s = << >> THEN 0 ELSE Head(s) + SeqSum(Tail(s))

\* ShardingOption.total_storage: the sum of the shards' storage
total_storage(so) ==
    Storage(SeqSum([i \in 1..Len(so.shards) |-> so.shards[i].storage.hbm]),
            SeqSum([i \in 1..Len(so.shards) |-> so.shards[i].storage.ddr]))

\* ShardingOption.num_shards
num_shards(so) == Len(so.shards)

\* ---------------------------------------------------------------- packers
\* A packer works on a list of device objects (a sequence of records
\* [rank, storage, perf] in list order) and on the rank table of the
\* proposal (ranks[u][i] is the rank of shard i of sharding option u).  It
\* returns [status, devices, ranks]: the list and the ranks as the call
\* leaves them, also when it raises (status # "ok"): effects made before the
\* raise stay.

Outcome(st, devices, ranks) == [status |-> st, devices |-> devices, ranks |-> ranks]

\* UniformShards with the rank taken one device too far (an off-by-one of
\* line 309)
RECURSIVE UniformShards_NextRank(_, _, _, _, _)
UniformShards_NextRank(so, u, i, devices, ranks) ==
    IF i > Len(devices) THEN Outcome("ok", devices, ranks)
    ELSE LET storage_needed == so.shards[i].storage
         IN  IF ~fits_in(storage_needed, devices[i].storage)
             THEN Outcome("PlannerError", devices, ranks)
             ELSE UniformShards_NextRank(so, u, i + 1,
                      [devices EXCEPT ![i].storage = StorageSub(@, storage_needed),
                                      ![i].perf = @ + so.shards[i].perf],
                      [ranks EXCEPT ![u][i] = devices[(i % Len(devices)) + 1].rank])

\* _uniform_partition, lines 301-311: shards i.. of sharding option u
RECURSIVE UniformShards(_, _, _, _, _)
UniformShards(so, u, i, devices, ranks) ==
    IF i > Len(devices) THEN Outcome("ok", devices, ranks)
    ELSE LET storage_needed == so.shards[i].storage
         IN  IF ~fits_in(storage_needed, devices[i].storage)
             THEN Outcome("PlannerError", devices, ranks)
             ELSE UniformShards(so, u, i + 1,
                      [devices EXCEPT ![i].storage = StorageSub(@, storage_needed),
                                      ![i].perf = @ + so.shards[i].perf],
                      [ranks EXCEPT ![u][i] = devices[i].rank])

\* _uniform_partition, lines 293-311: the sharding options us[k..]
RECURSIVE UniformPartition(_, _, _, _, _)
UniformPartition(units, us, k, devices, ranks) ==
    IF k > Len(us) THEN Outcome("ok", devices, ranks)
    ELSE IF num_shards(units[us[k]]) # Len(devices)
         THEN Outcome("RuntimeError", devices, ranks)
         ELSE LET then(r) == IF r.status # "ok" THEN r
                             ELSE UniformPartition(units, us, k + 1, r.devices, r.ranks)
              IN  then(UniformShards(units[us[k]], us[k], 1, devices, ranks))

\* the sort key with its two components swapped
DeviceSortKey_LocalRankFirst(device, local_world_size) ==
    <<device.rank % local_world_size, device.perf>>

\* the sort key of _device_partition, line 210
DeviceSortKey(device, local_world_size) ==
    <<device.perf, device.rank % local_world_size>>

\* position in the list of the first device that admits the shard, 0 if none
\* (the scan of lines 213-219)
FirstFit(shard, devices) ==
    LET fit == {i \in 1..Len(devices) : fits_in(shard.storage, devices[i].storage)}
    IN  IF fit = {} THEN 0 ELSE CHOOSE i \in fit : \A j \in fit : i <= j

\* DevicePlaceShard without the sort of lines 204-211: the first device of
\* the list that admits the shard, whatever its cost
DevicePlaceShard_Unsorted(shard, devices, local_world_size) ==
    LET scan(list, at) ==
            IF at = 0
            THEN [ok |-> FALSE, devices |-> list, rank |-> None]
            ELSE [ok |-> TRUE,
                  devices |-> [list EXCEPT ![at].storage = StorageSub(@, shard.storage),
                                           ![at].perf = @ + shard.perf],
                  rank |-> list[at].rank]
    IN  scan(devices, FirstFit(shard, devices))

\* one iteration of the loop of _device_partition, lines 203-227:
\* [ok, devices, rank]
DevicePlaceShard(shard, devices, local_world_size) ==
    LET scan(list, at) ==
            IF at = 0
            THEN [ok |-> FALSE, devices |-> list, rank |-> None]
            ELSE [ok |-> TRUE,
                  devices |-> [list EXCEPT ![at].storage = StorageSub(@, shard.storage),
                                           ![at].perf = @ + shard.perf],
                  rank |-> list[at].rank]
        place(list) == scan(list, FirstFit(shard, list))
    IN  place(sorted(devices,
                     [i \in 1..Len(devices) |->
                          DeviceSortKey(devices[i], local_world_size)]))

\* DevicePartition writing a rank only on a shard that has none: the rank
\* of an earlier trial stays
RECURSIVE DevicePartition_KeepsAssignedRank(_, _, _, _, _, _)
DevicePartition_KeepsAssignedRank(so, u, i, devices, local_world_size, ranks) ==
    IF i > Len(so.shards) THEN Outcome("ok", devices, ranks)
    ELSE LET then(r) ==
                 IF ~r.ok THEN Outcome("PlannerError", r.devices, ranks)
                 ELSE DevicePartition_KeepsAssignedRank(
                          so, u, i + 1, r.devices, local_world_size,
                          [ranks EXCEPT ![u][i] = IF @ = None THEN r.rank ELSE @])
         IN  then(DevicePlaceShard(so.shards[i], devices, local_world_size))

\* _device_partition, lines 198-227: shards i.. of sharding option u
RECURSIVE DevicePartition(_, _, _, _, _, _)
DevicePartition(so, u, i, devices, local_world_size, ranks) ==
    IF i > Len(so.shards) THEN Outcome("ok", devices, ranks)
    ELSE LET then(r) ==
                 IF ~r.ok THEN Outcome("PlannerError", r.devices, ranks)
                 ELSE DevicePartition(so, u, i + 1, r.devices, local_world_size,
                                      [ranks EXCEPT ![u][i] = r.rank])
         IN  then(DevicePlaceShard(so.shards[i], devices, local_world_size))

\* _get_host_level_devices, lines 282-290: the positions, in the topology's
\* device list, of the devices of each host
host_level_devices(world_size, local_world_size) ==
    [h \in 1..(world_size \div local_world_size) |->
        [i \in 1..local_world_size |-> (h - 1) * local_world_size + i]]

\* _get_perf_sum, lines 36-40
perf_sum(device_list) == SeqSum([i \in 1..Len(device_list) |-> device_list[i].perf])

\* the hosts in topology order, whatever their cost
sort_devices_by_perf_Unsorted(devices, hosts) == hosts

\* _sort_devices_by_perf, lines 33-42: the host lists by ascending cost sum
sort_devices_by_perf(devices, hosts) ==
    sorted(hosts,
           [h \in 1..Len(hosts) |->
                <<perf_sum([i \in 1..Len(hosts[h]) |-> devices[hosts[h][i]]]), 0>>])

\* CohostTrial with `except Exception` for `except PlannerError`: every
\* error of a packer abandons the host
RECURSIVE CohostTrial_CatchesAll(_, _, _, _, _)
CohostTrial_CatchesAll(units, us, k, host_devices, ranks) ==
    IF k > Len(us) THEN Outcome("ok", host_devices, ranks)
    ELSE LET so == units[us[k]]
             then(r) == IF r.status # "ok" THEN [r EXCEPT !.status = "PlannerError"]
                        ELSE CohostTrial_CatchesAll(units, us, k + 1, r.devices, r.ranks)
         IN  then(IF so.sharding_type = "table_row_wise"
                  THEN UniformPartition(units, <<us[k]>>, 1, host_devices, ranks)
                  ELSE IF so.sharding_type = "table_column_wise"
                  THEN DevicePartition(so, us[k], 1, host_devices,
                                       Len(host_devices), ranks)
                  ELSE Outcome("RuntimeError", host_devices, ranks))

\* the trial of one host, lines 243-266: the sharding options us[k..] of the
\* group on the copied host devices
RECURSIVE CohostTrial(_, _, _, _, _)
CohostTrial(units, us, k, host_devices, ranks) ==
    IF k > Len(us) THEN Outcome("ok", host_devices, ranks)
    ELSE LET so == units[us[k]]
             then(r) == IF r.status # "ok" THEN r
                        ELSE CohostTrial(units, us, k + 1, r.devices, r.ranks)
         IN  then(IF so.sharding_type = "table_row_wise"
                  THEN UniformPartition(units, <<us[k]>>, 1, host_devices, ranks)
                  ELSE IF so.sharding_type = "table_column_wise"
                  THEN DevicePartition(so, us[k], 1, host_devices,
                                       Len(host_devices), ranks)
                  ELSE Outcome("RuntimeError", host_devices, ranks))

\* CommitHost without line 273: the cost is written back, the storage is not
CommitHost_CostOnly(devices, host, host_devices) ==
    LET by_rank == sorted(host_devices,
                          [i \in 1..Len(host_devices) |-> <<host_devices[i].rank, 0>>])
    IN  [p \in 1..Len(devices) |->
            IF \E i \in 1..Len(host) : host[i] = p
            THEN LET i == CHOOSE i \in 1..Len(host) : host[i] = p
                 IN  [devices[p] EXCEPT !.perf = by_rank[i].perf]
            ELSE devices[p]]

\* lines 271-274: the trial copies, re-sorted by rank, written back onto the
\* devices of the host
CommitHost(devices, host, host_devices) ==
    LET by_rank == sorted(host_devices,
                          [i \in 1..Len(host_devices) |-> <<host_devices[i].rank, 0>>])
    IN  [p \in 1..Len(devices) |->
            IF \E i \in 1..Len(host) : host[i] = p
            THEN LET i == CHOOSE i \in 1..Len(host) : host[i] = p
                 IN  [devices[p] EXCEPT !.storage = by_rank[i].storage,
                                        !.perf = by_rank[i].perf]
            ELSE devices[p]]

\* CohostHosts trying a host on its devices themselves, not on a copy (line
\* 236 without the deepcopy): what an abandoned trial debited stays
RECURSIVE CohostHosts_NoTrialCopy(_, _, _, _, _, _, _)
CohostHosts_NoTrialCopy(units, group, order, j, devices, ranks, abandoned) ==
    IF j > Len(order)
    THEN [status |-> "PlannerError", devices |-> devices, ranks |-> ranks,
          abandoned |-> abandoned, host |-> << >>]
    ELSE LET host         == order[j]
             host_devices == [i \in 1..Len(host) |-> devices[host[i]]]
             host_storage == Storage(
                 SeqSum([i \in 1..Len(host) |-> host_devices[i].storage.hbm]),
                 SeqSum([i \in 1..Len(host) |-> host_devices[i].storage.ddr]))
         IN  IF ~fits_in(group.storage_sum, host_storage)
             THEN CohostHosts_NoTrialCopy(units, group, order, j + 1, devices, ranks,
                                          abandoned)
             ELSE LET tried(r, touched) ==
                          IF r.status = "ok"
                          THEN [status |-> "ok", devices |-> touched,
                                ranks |-> r.ranks, abandoned |-> abandoned, host |-> host]
                          ELSE IF r.status = "PlannerError"
                          THEN CohostHosts_NoTrialCopy(units, group, order, j + 1,
                                                       touched, r.ranks, abandoned + 1)
                          ELSE [status |-> r.status, devices |-> touched,
                                ranks |-> r.ranks, abandoned |-> abandoned,
                                host |-> << >>]
                      trial(r) == tried(r, CommitHost(devices, host, r.devices))
                  IN  trial(CohostTrial(units, group.sharding_options, 1,
                                        host_devices, ranks))

\* CohostHosts without the aggregate check of lines 237-241: every host is
\* tried
RECURSIVE CohostHosts_NoAggregateCheck(_, _, _, _, _, _, _)
CohostHosts_NoAggregateCheck(units, group, order, j, devices, ranks, abandoned) ==
    IF j > Len(order)
    THEN [status |-> "PlannerError", devices |-> devices, ranks |-> ranks,
          abandoned |-> abandoned, host |-> << >>]
    ELSE LET host         == order[j]
             host_devices == [i \in 1..Len(host) |-> devices[host[i]]]
             trial(r) ==
                 IF r.status = "ok"
                 THEN [status |-> "ok",
                       devices |-> CommitHost(devices, host, r.devices),
                       ranks |-> r.ranks, abandoned |-> abandoned, host |-> host]
                 ELSE IF r.status = "PlannerError"
                 THEN CohostHosts_NoAggregateCheck(units, group, order, j + 1, devices,
                                                   r.ranks, abandoned + 1)
                 ELSE [status |-> r.status, devices |-> devices,
                       ranks |-> r.ranks, abandoned |-> abandoned, host |-> << >>]
         IN  trial(CohostTrial(units, group.sharding_options, 1, host_devices, ranks))

\* _cohost_partition, lines 235-279: the hosts order[j..].  The result also
\* counts the hosts whose trial was abandoned on a PlannerError.
RECURSIVE CohostHosts(_, _, _, _, _, _, _)
CohostHosts(units, group, order, j, devices, ranks, abandoned) ==
    IF j > Len(order)
    THEN [status |-> "PlannerError", devices |-> devices, ranks |-> ranks,
          abandoned |-> abandoned, host |-> << >>]
    ELSE LET host         == order[j]
             host_devices == [i \in 1..Len(host) |-> devices[host[i]]]
             host_storage == Storage(
                 SeqSum([i \in 1..Len(host) |-> host_devices[i].storage.hbm]),
                 SeqSum([i \in 1..Len(host) |-> host_devices[i].storage.ddr]))
         IN  IF ~fits_in(group.storage_sum, host_storage)
             THEN CohostHosts(units, group, order, j + 1, devices, ranks, abandoned)
             ELSE LET trial(r) ==
                          IF r.status = "ok"
                          THEN [status |-> "ok",
                                devices |-> CommitHost(devices, host, r.devices),
                                ranks |-> r.ranks, abandoned |-> abandoned, host |-> host]
                          ELSE IF r.status = "PlannerError"
                          THEN CohostHosts(units, group, order, j + 1, devices, r.ranks,
                                           abandoned + 1)
                          ELSE [status |-> r.status, devices |-> devices,
                                ranks |-> r.ranks, abandoned |-> abandoned,
                                host |-> << >>]
                  IN  trial(CohostTrial(units, group.sharding_options, 1,
                                        host_devices, ranks))

\* _cohost_partition, lines 230-279
CohostPartition(units, group, devices, hosts, ranks) ==
    CohostHosts(units, group, sort_devices_by_perf(devices, hosts), 1, devices, ranks, 0)

\* ---------------------------------------------------------------- grouping
\* _get_uniform_sharding_options, lines 45-52: the indices of the uniform
\* sharding options, in proposal order
RECURSIVE get_uniform_sharding_options(_, _)
get_uniform_sharding_options(units, n) ==
    IF n = 0 THEN << >>
    ELSE LET before == get_uniform_sharding_options(units, n - 1)
         IN  IF units[n].partition_by = "uniform" THEN Append(before, n) ELSE before

\* group_key ignoring the dependency: every sharding option its own group
group_key_FqnOnly(so) == so.fqn

\* line 69: dependency or fqn
group_key(so) == IF so.dependency # "" THEN so.dependency ELSE so.fqn

\* lines 64-81: the groups by dependency, in insertion order of their keys
RECURSIVE GroupByDependency(_, _)
GroupByDependency(units, n) ==
    IF n = 0 THEN << >>
    ELSE LET before == GroupByDependency(units, n - 1)
             so     == units[n]
             at     == {g \in 1..Len(before) : before[g].key = group_key(so)}
         IN  IF so.partition_by = "uniform" THEN before
             ELSE IF at = {}
             THEN Append(before, [key |-> group_key(so),
                                  sharding_options |-> <<n>>,
                                  storage_sum |-> total_storage(so)])
             ELSE LET g == CHOOSE g \in at : TRUE
                  IN  [before EXCEPT
                         ![g].sharding_options = Append(@, n),
                         ![g].storage_sum = StorageAdd(@, total_storage(so))]

\* the groups sorted without reverse=True: smallest storage_sum first
group_and_sort_non_uniform_sharding_options_Ascending(units) ==
    LET groups == GroupByDependency(units, Len(units))
    IN  sorted(groups,
               [g \in 1..Len(groups) |->
                    <<groups[g].storage_sum.hbm, groups[g].storage_sum.ddr>>])

\* _group_and_sort_non_uniform_sharding_options, lines 61-84: sorted by
\* storage_sum (compared as the pair (hbm, ddr)), largest first, stable
group_and_sort_non_uniform_sharding_options(units) ==
    LET groups == GroupByDependency(units, Len(units))
    IN  sorted(groups,
               [g \in 1..Len(groups) |->
                    <<0 - groups[g].storage_sum.hbm, 0 - groups[g].storage_sum.ddr>>])

\* ------------------------------------------------------ collaborators
\* NoopPerfModel.rate: the largest per-rank sum of the shards' costs, over
\* the ranks 0..world_size-1
RECURSIVE RankPerf(_, _, _, _)
RankPerf(units, ranks, rank, n) ==
    IF n = 0 THEN 0
    ELSE RankPerf(units, ranks, rank, n - 1)
         + SeqSum([i \in 1..Len(units[n].shards) |->
                      IF ranks[n][i] = rank THEN units[n].shards[i].perf ELSE 0])

rate(units, ranks, world_size) ==
    LET perfs == [r \in 0..(world_size - 1) |-> RankPerf(units, ranks, r, Len(units))]
    IN  CHOOSE m \in {perfs[r] : r \in DOMAIN perfs} :
            \A r \in DOMAIN perfs : perfs[r] <= m

\* utils.reset_shard_rank: every shard's rank becomes None
reset_shard_rank(units) ==
    [u \in 1..Len(units) |-> [i \in 1..Len(units[u].shards) |-> None]]

\* set_hbm_per_device capping the first device only
set_hbm_per_device_FirstOnly(topology, hbm_per_device) ==
    [topology EXCEPT !.devices[1].storage.hbm = hbm_per_device]

\* set_hbm_per_device, lines 412-414
set_hbm_per_device(topology, hbm_per_device) ==
    [topology EXCEPT !.devices =
        [p \in 1..Len(topology.devices) |->
            [topology.devices[p] EXCEPT !.storage.hbm = hbm_per_device]]]

\* ------------------------------------------------------------- objects
\* the id of a new object: the smallest id no live reference holds
fresh(live) == CHOOSE i \in 0..Cardinality(live) :
                   i \notin live /\ \A j \in 0..(i - 1) : j \in live

\* no copy: the same object
deepcopy_topology_Alias(ref, live) == ref

\* copy.deepcopy of a Topology (lines 152, 336): the id of the copy
deepcopy_topology(ref, live) == fresh(live)

\* no copy of the plan: default_plan is the proposal itself
deepcopy_plan_Alias(ref, live) == ref

\* copy.deepcopy of a plan (lines 340, 400): the id of the copy
deepcopy_plan(ref, live) == fresh(live)

\* heap h with object id holding value v
Store(h, id, v) == [i \in (DOMAIN h) \cup {id} |-> IF i = id THEN v ELSE h[i]]

\* ------------------------------------------------------------- inputs
Shards(n, hbm, ddr, perf) ==
    [i \in 1..n |-> [storage |-> Storage(hbm * MiB, ddr * MiB), perf |-> perf]]

Shape(partition_by, sharding_type, dependency, shards) ==
    [partition_by |-> partition_by, sharding_type |-> sharding_type,
     dependency |-> dependency, shards |-> shards]

\* the sharding options a proposal is drawn from, for a world of 4 devices
\* in hosts of 2.  The last three break a structural precondition: a uniform
\* sharding option and a co-located row-wise one with one shard too few or
\* too many, and a partition_by that is no PartitionByType.
Shapes ==
    { Shape("uniform", "row_wise", "", Shards(4, 10, 0, 1)),
      Shape("device", "column_wise", "", Shards(3, 30, 0, 1)),
      Shape("device", "table_wise", "", Shards(1, 20, 30, 2)),
      Shape("device", "table_wise", "g", Shards(1, 10, 0, 3)),
      Shape("host", "table_row_wise", "g", Shards(2, 20, 0, 2)),
      Shape("host", "table_column_wise", "g", Shards(2, 10, 0, 1)),
      Shape("uniform", "data_parallel", "", Shards(3, 10, 0, 1)),
      Shape("host", "table_row_wise", "g", Shards(3, 10, 0, 1)),
      Shape("unknown", "table_wise", "", Shards(1, 10, 0, 1)) }

\* the fully qualified name of the n-th sharding option of a proposal
Fqn(n) == <<"table_1", "table_2", "table_3", "table_4", "table_5">>[n]

Proposals ==
    UNION { { [n \in 1..len |->
                 [fqn |-> Fqn(n), partition_by |-> f[n].partition_by,
                  sharding_type |-> f[n].sharding_type,
                  dependency |-> f[n].dependency, shards |-> f[n].shards]] :
              f \in [1..len -> Shapes] } : len \in 1..MaxUnits }

\* Topology(world_size=4, local_world_size=2): ranks 0..3 in list order,
\* cost 0, the given HBM per device and 40 MiB of DDR
Topology(hbms) ==
    [devices |-> [p \in 1..Len(hbms) |->
                    [rank |-> p - 1, storage |-> Storage(hbms[p] * MiB, 40 * MiB),
                     perf |-> 0]],
     local_world_size |-> 2]

Topologies == { Topology(<<60, 60, 60, 60>>), Topology(<<80, 10, 80, 80>>) }

\* the example of the docstring of GreedyPerfPartitioner.partition, lines
\* 109-150: two uniform and two device sharding options of two shards of
\* storage and cost 1, 2, 3 and 4, on Topology(world_size=2)
ExampleProposal ==
    [n \in 1..4 |->
        [fqn |-> Fqn(n),
         partition_by |-> IF n <= 2 THEN "uniform" ELSE "device",
         sharding_type |-> IF n <= 2 THEN "row_wise" ELSE "column_wise",
         dependency |-> "",
         shards |-> Shards(2, n, n, n)]]

ExampleTopology == Topology(<<60, 60>>)

\* a proposal whose plan under the first cap tried costs the baseline cost 9
\* times 1 + 2/3 exactly: three table-wise sharding options of one shard of
\* cost 3, 9 and 6, on two devices of 100 MiB
BoundaryProposal ==
    [n \in 1..3 |->
        [fqn |-> Fqn(n), partition_by |-> "device", sharding_type |-> "table_wise",
         dependency |-> "",
         shards |-> Shards(1, <<50, 40, 40>>[n], 0, <<3, 9, 6>>[n])]]

BoundaryTopology == Topology(<<100, 100>>)

\* the tolerance the partitioner is built with (line 321): the float
\* num / den.  0 and 1/2 are floats; 2/3 is not and is rounded
Tolerances ==
    { [num |-> 0, den |-> 1], [num |-> 1, den |-> 2], [num |-> 2, den |-> 3] }

world_size(topology) == Len(topology.devices)

\* ------------------------------------------------------------- state
VARIABLES
    proposal,      \* the caller's sharding options (all but the shard ranks)
    plans,         \* plan objects: id -> rank table; id 0 is the caller's proposal
    topologies,    \* Topology objects: id -> topology; id 0 is storage_constraint
    config,        \* MemoryBalancedPartitioner: _max_search_count, _tolerance
    mb,            \* the frame of MemoryBalancedPartitioner.partition
    gp,            \* the frame of GreedyPerfPartitioner.partition
    partitioner    \* _partitioner._topology: id of the retained topology, or None

vars == <<proposal, plans, topologies, config, mb, gp, partitioner>>

IdleGreedy ==
    [pc |-> "idle", arg |-> None, work |-> None, sorted_devices |-> << >>,
     groups |-> << >>, g |-> 0, s |-> 0, error |-> "", abandoned |-> 0,
     at_entry |-> << >>, retained_at_entry |-> << >>]

Init ==
    /\ \/ /\ proposal \in Proposals
          /\ \E t \in Topologies : topologies = [i \in {0} |-> t]
       \/ /\ proposal = ExampleProposal
          /\ topologies = [i \in {0} |-> ExampleTopology]
       \/ /\ proposal = BoundaryProposal
          /\ topologies = [i \in {0} |-> BoundaryTopology]
    /\ plans = [i \in {0} |-> reset_shard_rank(proposal)]
    /\ \E tol \in Tolerances :
          config = [max_search_count |-> MaxSearchCount, tolerance |-> tol]
    /\ mb = [pc |-> "start", topology |-> None, default_plan |-> None,
             original_plan_perf |-> 0, new_plan_perf |-> 0,
             min_hbm_per_device |-> 0, max_hbm_per_device |-> 0,
             mid_hbm_per_device |-> 0, search_count |-> 0, error |-> ""]
    /\ gp = IdleGreedy
    /\ partitioner = None

\* the references that hold a Topology object
LiveTopologies == ({0, mb.topology, gp.arg, gp.work, partitioner}) \ {None}

\* the references that hold a plan object
LivePlans == ({0, mb.default_plan}) \ {None}

\* the call _partitioner.partition(proposal, topology)
Call(arg) == [IdleGreedy EXCEPT !.pc = "enter", !.arg = arg]

\* ---------------------------------------------- GreedyPerfPartitioner.partition
\* the device objects of the working topology, in the order of sorted_devices
SortedDeviceList == [i \in 1..Len(gp.sorted_devices) |->
                        topologies[gp.work].devices[gp.sorted_devices[i]]]

\* position of the device of the given rank in a device list
PositionOf(devices, rank) == CHOOSE p \in 1..Len(devices) : devices[p].rank = rank

\* the working topology after a packer left `devices` as its device list
WithDevices(devices) ==
    Store(topologies, gp.work, [topologies[gp.work] EXCEPT !.devices = devices])

\* what `raise` leaves of the frame
Raised(error) == [gp EXCEPT !.pc = "raised", !.error = error]

\* GreedyEnter with self._topology assigned at once, not at line 194
GreedyEnter_RetainsAtEntry ==
    /\ gp.pc = "enter"
    /\ LET work == deepcopy_topology(gp.arg, LiveTopologies)
       IN  /\ topologies' = Store(topologies, work, topologies[gp.arg])
           /\ partitioner' = work
           /\ gp' = [gp EXCEPT
                  !.pc = "uniform", !.work = work,
                  !.sorted_devices = [i \in 1..world_size(topologies[gp.arg]) |-> i],
                  !.at_entry = topologies[gp.arg].devices,
                  !.retained_at_entry =
                      IF partitioner = None THEN << >>
                      ELSE <<partitioner, topologies[partitioner]>>]
    /\ UNCHANGED <<proposal, plans, config, mb>>

\* lines 152-157: the working copy, the shallow copy of its device list
GreedyEnter ==
    /\ gp.pc = "enter"
    /\ LET work == deepcopy_topology(gp.arg, LiveTopologies)
       IN  /\ topologies' = Store(topologies, work, topologies[gp.arg])
           /\ gp' = [gp EXCEPT
                  !.pc = "uniform", !.work = work,
                  !.sorted_devices = [i \in 1..world_size(topologies[gp.arg]) |-> i],
                  !.at_entry = topologies[gp.arg].devices,
                  !.retained_at_entry =
                      IF partitioner = None THEN << >>
                      ELSE <<partitioner, topologies[partitioner]>>]
    /\ UNCHANGED <<proposal, plans, config, mb, partitioner>>

\* lines 159-167: the uniform sharding options, then the grouping
GreedyUniform ==
    /\ gp.pc = "uniform"
    /\ \E r \in { UniformPartition(proposal,
                        get_uniform_sharding_options(proposal, Len(proposal)), 1,
                        topologies[gp.work].devices, plans[0]) } :
           /\ topologies' = WithDevices(r.devices)
           /\ plans' = Store(plans, 0, r.ranks)
           /\ gp' = IF r.status = "ok"
                    THEN [gp EXCEPT
                            !.pc = "groups",
                            !.groups = group_and_sort_non_uniform_sharding_options(proposal),
                            !.g = 1, !.s = 1]
                    ELSE Raised(r.status)
    /\ UNCHANGED <<proposal, config, mb, partitioner>>

\* the group the loop of line 169 is at
AtGroup == gp.pc = "groups" /\ gp.g <= Len(gp.groups)
Group == gp.groups[gp.g]
FirstOfGroup == proposal[Group.sharding_options[1]]

\* lines 170-176: a group whose first sharding option is partitioned by host
GreedyCohost ==
    /\ AtGroup
    /\ FirstOfGroup.partition_by = "host"
    /\ \E r \in { CohostPartition(proposal, Group, topologies[gp.work].devices,
                        host_level_devices(world_size(topologies[gp.work]),
                                           topologies[gp.work].local_world_size),
                        plans[0]) } :
           /\ topologies' = WithDevices(r.devices)
           /\ plans' = Store(plans, 0, r.ranks)
           /\ gp' = IF r.status = "ok"
                    THEN [gp EXCEPT !.g = @ + 1, !.s = 1,
                                    !.abandoned = @ + r.abandoned]
                    ELSE [Raised(r.status) EXCEPT !.abandoned = @ + r.abandoned]
    /\ UNCHANGED <<proposal, config, mb, partitioner>>

\* lines 177-188 and one iteration of the loop of _device_partition
\* (lines 203-227) on sorted_devices: shard gp.s of the group's sharding option
GreedyDeviceShard ==
    /\ AtGroup
    /\ FirstOfGroup.partition_by = "device"
    /\ Len(Group.sharding_options) = 1
    /\ \E r \in { DevicePlaceShard(FirstOfGroup.shards[gp.s], SortedDeviceList,
                                     topologies[gp.work].local_world_size) } :
       LET u == Group.sharding_options[1]
           topology == topologies[gp.work]
           order == [i \in 1..Len(r.devices) |->
                        PositionOf(topology.devices, r.devices[i].rank)]
       IN  /\ topologies' = WithDevices(
                  [p \in 1..Len(topology.devices) |->
                      r.devices[PositionOf(r.devices, topology.devices[p].rank)]])
           /\ plans' = IF r.ok THEN Store(plans, 0, [plans[0] EXCEPT ![u][gp.s] = r.rank])
                       ELSE plans
           /\ gp' = IF ~r.ok
                    THEN [Raised("PlannerError") EXCEPT !.sorted_devices = order]
                    ELSE IF gp.s < Len(proposal[u].shards)
                    THEN [gp EXCEPT !.sorted_devices = order, !.s = @ + 1]
                    ELSE [gp EXCEPT !.sorted_devices = order, !.g = @ + 1, !.s = 1]
    /\ UNCHANGED <<proposal, config, mb, partitioner>>

\* lines 181-183 and 189-192: a device group of several sharding options
\* fails the assertion; any other strategy is a RuntimeError
GreedyDispatchFault ==
    /\ AtGroup
    /\ \/ /\ FirstOfGroup.partition_by = "device"
          /\ Len(Group.sharding_options) # 1
          /\ gp' = Raised("AssertionError")
       \/ /\ FirstOfGroup.partition_by \notin {"host", "device"}
          /\ gp' = Raised("RuntimeError")
    /\ UNCHANGED <<proposal, plans, topologies, config, mb, partitioner>>

\* lines 193-195: every group is placed
GreedyReturn ==
    /\ gp.pc = "groups"
    /\ gp.g > Len(gp.groups)
    /\ partitioner' = gp.work
    /\ gp' = [gp EXCEPT !.pc = "returned"]
    /\ UNCHANGED <<proposal, plans, topologies, config, mb>>

\* ------------------------------------------ MemoryBalancedPartitioner.partition
\* lines 348-352: the HBM of every shard of the proposal
hbm_requirement(units) ==
    SeqSum([u \in 1..Len(units) |-> total_storage(units[u]).hbm])

\* ------------------------------------------------- floating point (line 378)
\* self._tolerance is a Python float and line 378 is evaluated in IEEE 754
\* binary64: every operation gives the exact result rounded to Precision
\* significant bits, ties to even.  A float is [bits, exp]: the binary
\* number `bits` (most significant bit first, no leading zero, at most
\* Precision bits) times 2^exp.  Long numbers are worked on in chunks of
\* bits narrow enough for every intermediate result to stay below 2^WordBits.
Precision == 53
WordBits == 30

Float(bits, exp) == [bits |-> bits, exp |-> exp]

\* n zero bits
Zeros(n) == [i \in 1..n |-> 0]

\* the number of binary digits of a natural number below 2^WordBits
BitLen(n) == CHOOSE len \in 0..WordBits :
                 /\ n < 2^len
                 /\ len > 0 => n >= 2^(len - 1)

\* the binary digits of a natural number, most significant first
IntBits(n) == [i \in 1..BitLen(n) |-> (n \div 2^(BitLen(n) - i)) % 2]

\* the natural number of at most WordBits binary digits
RECURSIVE BitsValue(_)
BitsValue(bits) ==
    IF bits = << >> THEN 0
    ELSE 2 * BitsValue(SubSeq(bits, 1, Len(bits) - 1)) + bits[Len(bits)]

\* the digits of a sequence of chunks of w bits each
Digits(chunks, w) ==
    [i \in 1..(Len(chunks) * w) |->
        (chunks[((i - 1) \div w) + 1] \div 2^(w - 1 - ((i - 1) % w))) % 2]

\* the chunks of w bits of a binary number, the first one filled with zeros
Chunks(bits, w) ==
    LET cut(padded) ==
            [c \in 1..(Len(padded) \div w) |->
                BitsValue(SubSeq(padded, (c - 1) * w + 1, c * w))]
    IN  cut(Zeros((w - (Len(bits) % w)) % w) \o bits)

\* the width of chunk that can be multiplied by k, or divided by k with a
\* remainder below k carried in, within a word
ChunkWidth(k) == IF BitLen(k) < WordBits THEN WordBits - BitLen(k) ELSE 1

\* the bits without their leading zeros
StripZeros(bits) ==
    IF \A i \in 1..Len(bits) : bits[i] = 0 THEN << >>
    ELSE SubSeq(bits,
                CHOOSE i \in 1..Len(bits) :
                    bits[i] = 1 /\ \A j \in 1..(i - 1) : bits[j] = 0,
                Len(bits))

\* bits + 1: one bit longer when the carry runs out at the top
Increment(bits) ==
    IF \A i \in 1..Len(bits) : bits[i] = 1 THEN <<1>> \o Zeros(Len(bits))
    ELSE LET flip(last0) ==
                 [i \in 1..Len(bits) |->
                     IF i < last0 THEN bits[i] ELSE IF i = last0 THEN 1 ELSE 0]
         IN  flip(CHOOSE i \in 1..Len(bits) :
                      bits[i] = 0 /\ \A j \in (i + 1)..Len(bits) : bits[j] = 1)

\* the first Precision bits of sig, rounded to nearest, ties to even, by
\* the bits that follow and by `sticky` (the exact value has more digits
\* behind sig); exp is the exponent of the last bit kept
RoundSignificand(sig, exp, sticky) ==
    LET up(keep, guard, rest) ==
            guard = 1 /\ (sticky \/ rest \/ keep[Precision] = 1)
        carried(m) ==
            IF Len(m) > Precision THEN Float(SubSeq(m, 1, Precision), exp + 1)
            ELSE Float(m, exp)
        rounded(keep, guard, rest) ==
            carried(IF up(keep, guard, rest) THEN Increment(keep) ELSE keep)
    IN  rounded(SubSeq(sig, 1, Precision), sig[Precision + 1],
                \E i \in (Precision + 2)..Len(sig) : sig[i] = 1)

\* the float nearest to bits * 2^exp (plus less than 2^exp if sticky)
Round(bits, exp, sticky) ==
    LET normal(sig) ==
            IF Len(sig) <= Precision THEN Float(sig, exp)
            ELSE RoundSignificand(sig, exp + Len(sig) - Precision, sticky)
    IN  normal(StripZeros(bits))

\* long division: n more chunks of w binary digits of r / den, and the
\* remainder behind them
RECURSIVE DivChunks(_, _, _, _, _)
DivChunks(r, den, w, n, chunks) ==
    IF n = 0 THEN [chunks |-> chunks, rem |-> r]
    ELSE DivChunks((r * 2^w) % den, den, w, n - 1,
                   Append(chunks, (r * 2^w) \div den))

\* the float num / den of two naturals: the digits of the whole part, then
\* digits of the fraction enough for its leading zeros (fewer than the
\* digits of den), Precision digits and one more
FloatDiv(num, den) ==
    LET quotient(w, n, q) ==
            Round(IntBits(num \div den) \o Digits(q.chunks, w), 0 - n * w, q.rem # 0)
        divide(w, n) == quotient(w, n, DivChunks(num % den, den, w, n, << >>))
        width(w) == divide(w, ((BitLen(den) + Precision + 1) \div w) + 1)
    IN  width(ChunkWidth(den))

\* 1 + x in floating point: x with a 1 added at the digit of weight 2^0
OnePlus(x) ==
    LET sum(bits, e) ==
            \* bits reach down to 2^e, e <= 0, and up to 2^0 at least
            Round(Increment(SubSeq(bits, 1, Len(bits) + e))
                      \o SubSeq(bits, Len(bits) + e + 1, Len(bits)),
                  e, FALSE)
        lined(bits, e) ==
            sum(Zeros(IF Len(bits) + e < 1 THEN 1 - e - Len(bits) ELSE 0) \o bits, e)
    IN  IF x.exp > 0 THEN lined(x.bits \o Zeros(x.exp), 0)
        ELSE lined(x.bits, x.exp)

\* the chunks of w bits times k, from chunk i down to the first, with a
\* carry: the digits of the product
RECURSIVE MulChunks(_, _, _, _, _)
MulChunks(chunks, k, w, i, carry) ==
    IF i = 0 THEN IntBits(carry)
    ELSE MulChunks(chunks, k, w, i - 1, (chunks[i] * k + carry) \div 2^w)
             \o Digits(<<(chunks[i] * k + carry) % 2^w>>, w)

\* k * x in floating point, k a natural number
FloatMulInt(k, x) ==
    LET product(chunks, w) == Round(MulChunks(chunks, k, w, Len(chunks), 0), x.exp, FALSE)
        width(w) == product(Chunks(x.bits, w), w)
    IN  width(ChunkWidth(k))

\* the binary number a is less than the binary number b (no leading zeros)
BitsLess(a, b) ==
    \/ Len(a) < Len(b)
    \/ /\ Len(a) = Len(b)
       /\ \E i \in 1..Len(a) : a[i] < b[i] /\ \A j \in 1..(i - 1) : a[j] = b[j]

\* the integer part of a float, as a binary number
FloorBits(x) ==
    IF x.exp >= 0 THEN x.bits \o Zeros(x.exp)
    ELSE SubSeq(x.bits, 1, Len(x.bits) + x.exp)

\* n > x for a natural number n and a float x: n exceeds the integer part
IntGreaterThanFloat(n, x) == BitsLess(FloorBits(x), IntBits(n))

\* ----------------------------------------------------- the search
\* no plan is ever held to be too costly
WorseThanTolerated_Never(new_plan_perf, original_plan_perf, tolerance) == FALSE

\* line 378: new_plan_perf > original_plan_perf * (1 + self._tolerance), in
\* floating point; self._tolerance is the float tolerance.num / tolerance.den
WorseThanTolerated(new_plan_perf, original_plan_perf, tolerance) ==
    IntGreaterThanFloat(new_plan_perf,
        FloatMulInt(original_plan_perf,
            OnePlus(FloatDiv(tolerance.num, tolerance.den))))

\* line 368: the middle of the bracket
MidPoint(min_hbm_per_device, max_hbm_per_device) ==
    (max_hbm_per_device + min_hbm_per_device) \div 2

\* the loop condition without the count of line 363
SearchGoesOn_NoCount ==
    mb.min_hbm_per_device + MinBracket < mb.max_hbm_per_device

\* lines 362-365: the condition of the search loop
SearchGoesOn ==
    /\ mb.search_count < config.max_search_count
    /\ mb.min_hbm_per_device + MinBracket < mb.max_hbm_per_device

\* lines 333-339: the copy of storage_constraint and the call for the
\* default plan
MBStart ==
    /\ mb.pc = "start"
    /\ LET topology == deepcopy_topology(0, LiveTopologies)
       IN  /\ topologies' = Store(topologies, topology, topologies[0])
           /\ mb' = [mb EXCEPT !.pc = "baseline", !.topology = topology]
           /\ gp' = Call(topology)
    /\ UNCHANGED <<proposal, plans, config, partitioner>>

\* lines 339-358: the default plan returned; its copy, its cost, the bracket
MBBaseline ==
    /\ mb.pc = "baseline"
    /\ gp.pc = "returned"
    /\ LET default_plan == deepcopy_plan(0, LivePlans)
       IN  /\ plans' = Store(plans, default_plan, plans[0])
           /\ mb' = [mb EXCEPT
                  !.pc = "loop",
                  !.default_plan = default_plan,
                  !.original_plan_perf =
                      rate(proposal, plans[0], world_size(topologies[0])),
                  !.max_hbm_per_device = topologies[mb.topology].devices[1].storage.hbm,
                  !.min_hbm_per_device =
                      hbm_requirement(proposal) \div world_size(topologies[mb.topology]),
                  !.search_count = 0]
    /\ gp' = IdleGreedy
    /\ UNCHANGED <<proposal, topologies, config, partitioner>>

\* lines 362-371: one more attempt: the ranks reset, the cap set to the
\* middle of the bracket, the call
MBAttempt ==
    /\ mb.pc = "loop"
    /\ SearchGoesOn
    /\ LET mid_hbm_per_device ==
               MidPoint(mb.min_hbm_per_device, mb.max_hbm_per_device)
       IN  /\ plans' = Store(plans, 0, reset_shard_rank(proposal))
           /\ topologies' = Store(topologies, mb.topology,
                  set_hbm_per_device(topologies[mb.topology], mid_hbm_per_device))
           /\ mb' = [mb EXCEPT !.pc = "attempt",
                               !.search_count = @ + 1,
                               !.mid_hbm_per_device = mid_hbm_per_device]
    /\ gp' = Call(mb.topology)
    /\ UNCHANGED <<proposal, config, partitioner>>

\* lines 372-386: the attempt returned a plan that costs too much
MBReject ==
    /\ mb.pc = "attempt"
    /\ gp.pc = "returned"
    /\ LET new_plan_perf == rate(proposal, plans[0], world_size(topologies[0]))
       IN  /\ WorseThanTolerated(new_plan_perf, mb.original_plan_perf, config.tolerance)
           /\ mb' = [mb EXCEPT !.pc = "loop",
                               !.new_plan_perf = new_plan_perf,
                               !.min_hbm_per_device = mb.mid_hbm_per_device]
    /\ gp' = IdleGreedy
    /\ UNCHANGED <<proposal, plans, topologies, config, partitioner>>

\* lines 372-378, 387-401: the attempt returned a plan within the tolerance
MBAccept ==
    /\ mb.pc = "attempt"
    /\ gp.pc = "returned"
    /\ LET new_plan_perf == rate(proposal, plans[0], world_size(topologies[0]))
           default_plan == deepcopy_plan(0, LivePlans \ {mb.default_plan})
       IN  /\ ~WorseThanTolerated(new_plan_perf, mb.original_plan_perf, config.tolerance)
           /\ plans' = Store(plans, default_plan, plans[0])
           /\ mb' = [mb EXCEPT !.pc = "loop",
                               !.new_plan_perf = new_plan_perf,
                               !.default_plan = default_plan,
                               !.max_hbm_per_device = mb.mid_hbm_per_device]
    /\ gp' = IdleGreedy
    /\ UNCHANGED <<proposal, topologies, config, partitioner>>

\* the PlannerError of an attempt left uncaught: partition raises it
MBAttemptFailed_Surfaces ==
    /\ mb.pc = "attempt"
    /\ gp.pc = "raised"
    /\ gp.error = "PlannerError"
    /\ mb' = [mb EXCEPT !.pc = "raised", !.error = gp.error]
    /\ UNCHANGED <<proposal, plans, topologies, config, gp, partitioner>>

\* lines 402-407: the attempt raised a PlannerError
MBAttemptFailed ==
    /\ mb.pc = "attempt"
    /\ gp.pc = "raised"
    /\ gp.error = "PlannerError"
    /\ mb' = [mb EXCEPT !.pc = "loop", !.min_hbm_per_device = mb.mid_hbm_per_device]
    /\ gp' = IdleGreedy
    /\ UNCHANGED <<proposal, plans, topologies, config, partitioner>>

\* an exception that no handler of partition catches: any exception of the
\* call for the default plan (line 339), and an exception other than
\* PlannerError of an attempt (lines 370-402)
MBPropagate ==
    /\ gp.pc = "raised"
    /\ \/ mb.pc = "baseline"
       \/ mb.pc = "attempt" /\ gp.error # "PlannerError"
    /\ mb' = [mb EXCEPT !.pc = "raised", !.error = gp.error]
    /\ UNCHANGED <<proposal, plans, topologies, config, gp, partitioner>>

\* line 409: the loop is over
MBReturn ==
    /\ mb.pc = "loop"
    /\ ~SearchGoesOn
    /\ mb' = [mb EXCEPT !.pc = "returned"]
    /\ UNCHANGED <<proposal, plans, topologies, config, gp, partitioner>>

\* the plan partition returns
ReturnedPlan == plans[mb.default_plan]

Next ==
    \/ MBStart
    \/ GreedyEnter
    \/ GreedyUniform
    \/ GreedyCohost
    \/ GreedyDeviceShard
    \/ GreedyDispatchFault
    \/ GreedyReturn
    \/ MBBaseline
    \/ MBAttempt
    \/ MBReject
    \/ MBAccept
    \/ MBAttemptFailed
    \/ MBPropagate
    \/ MBReturn

Spec == Init /\ [][Next]_vars

\* ------------------------------------------------------------------ claims
\* the storage and the cost of the shards that a rank table places on a rank
AssignedHbm(units, ranks, rank) ==
    SeqSum([u \in 1..Len(units) |->
        SeqSum([i \in 1..Len(units[u].shards) |->
            IF ranks[u][i] = rank THEN units[u].shards[i].storage.hbm ELSE 0])])

AssignedDdr(units, ranks, rank) ==
    SeqSum([u \in 1..Len(units) |->
        SeqSum([i \in 1..Len(units[u].shards) |->
            IF ranks[u][i] = rank THEN units[u].shards[i].storage.ddr ELSE 0])])

AssignedPerf(units, ranks, rank) ==
    SeqSum([u \in 1..Len(units) |->
        SeqSum([i \in 1..Len(units[u].shards) |->
            IF ranks[u][i] = rank THEN units[u].shards[i].perf ELSE 0])])

\* GreedyPerfPartitioner.partition has just returned (its frame is not yet
\* read by the caller); WorkDevices are the devices of self._topology
GreedyReturned == gp.pc = "returned"
WorkDevices == topologies[gp.work].devices
HasUnit(partition_by) == \E u \in 1..Len(proposal) : proposal[u].partition_by = partition_by

\* C1: after a successful GreedyPerfPartitioner.partition, every device of
\* the retained working topology has as remaining storage its storage at
\* the start of the call minus the storage of the shards whose rank it is,
\* and no component of it is negative.
C1_CapacityConservation ==
    GreedyReturned =>
        \A p \in 1..Len(WorkDevices) :
            LET d == WorkDevices[p]
            IN  /\ d.rank = gp.at_entry[p].rank
                /\ d.storage.hbm = gp.at_entry[p].storage.hbm
                                   - AssignedHbm(proposal, plans[0], d.rank)
                /\ d.storage.ddr = gp.at_entry[p].storage.ddr
                                   - AssignedDdr(proposal, plans[0], d.rank)
                /\ d.storage.hbm >= 0
                /\ d.storage.ddr >= 0

\* a successful call that placed uniform, device and co-located sharding
\* options and abandoned a co-location trial on a host before it succeeded
\* on another
C1_Witness ==
    /\ GreedyReturned
    /\ HasUnit("uniform") /\ HasUnit("device") /\ HasUnit("host")
    /\ gp.abandoned > 0

\* C2: after a successful GreedyPerfPartitioner.partition on a topology whose
\* devices start with cost 0, the cost of every device of the retained
\* working topology is the sum of the costs of the shards whose rank it is.
C2_CostConservation ==
    (GreedyReturned /\ \A p \in 1..Len(gp.at_entry) : gp.at_entry[p].perf = 0) =>
        \A p \in 1..Len(WorkDevices) :
            WorkDevices[p].perf = AssignedPerf(proposal, plans[0], WorkDevices[p].rank)

\* a successful call in which a co-location trial was abandoned, every
\* device carries some cost and the costs differ
C2_Witness ==
    /\ GreedyReturned
    /\ gp.abandoned > 0
    /\ \A p \in 1..Len(WorkDevices) : WorkDevices[p].perf > 0
    /\ \E p \in 1..Len(WorkDevices) : WorkDevices[p].perf > WorkDevices[1].perf

\* C3: after a successful GreedyPerfPartitioner.partition, the shards of any
\* two host-partitioned sharding options with the same dependency all have
\* ranks of one host: one k with k*local_world_size <= rank <
\* (k+1)*local_world_size.
C3_CoLocation ==
    GreedyReturned =>
        \A u, v \in 1..Len(proposal) :
            (/\ proposal[u].partition_by = "host"
             /\ proposal[v].partition_by = "host"
             /\ proposal[u].dependency # ""
             /\ proposal[u].dependency = proposal[v].dependency)
            => \E k \in 0..(Len(WorkDevices) \div topologies[gp.work].local_world_size) - 1 :
                   \A w \in {u, v} : \A i \in 1..Len(proposal[w].shards) :
                       /\ k * topologies[gp.work].local_world_size <= plans[0][w][i]
                       /\ plans[0][w][i] < (k + 1) * topologies[gp.work].local_world_size

\* a successful call with two different co-located sharding options of one
\* dependency, placed on the second host
C3_Witness ==
    /\ GreedyReturned
    /\ \E u, v \in 1..Len(proposal) :
          /\ u # v
          /\ proposal[u].partition_by = "host" /\ proposal[v].partition_by = "host"
          /\ proposal[u].dependency = proposal[v].dependency
          /\ proposal[u].sharding_type # proposal[v].sharding_type
          /\ \A i \in 1..Len(proposal[u].shards) : plans[0][u][i] >= 2

\* C4: no partition call changes the topology object its caller passed:
\* storage_constraint (object 0) is the same after every step of
\* MemoryBalancedPartitioner.partition, and when
\* GreedyPerfPartitioner.partition returns or raises, the devices of its
\* argument are, in order, what they were when it was called.
C4_CallerTopologyUntouched ==
    [][ /\ topologies'[0] = topologies[0]
        /\ (gp'.pc \in {"returned", "raised"}
               => topologies'[gp'.arg].devices = gp'.at_entry) ]_vars

\* the search returned after attempts that capped the HBM of the internal
\* copy and debited working copies
C4_Witness ==
    /\ mb.pc = "returned"
    /\ mb.search_count > 0
    /\ topologies[mb.topology] # topologies[0]
    /\ topologies[partitioner] # topologies[0]
    /\ topologies[partitioner] # topologies[mb.topology]

\* the step of GreedyDeviceShard, and the shard it places
DeviceShardStep ==
    AtGroup /\ FirstOfGroup.partition_by = "device" /\ Len(Group.sharding_options) = 1
ShardAtHand == proposal[Group.sharding_options[1]].shards[gp.s]
Admitting(shard, devices) ==
    {p \in 1..Len(devices) : fits_in(shard.storage, devices[p].storage)}

\* C5: GreedyPerfPartitioner.partition is all-or-nothing: a device-strategy
\* shard that fits on no device makes the call raise PlannerError, and when
\* the call raises, self._topology is the object it was before the call,
\* with the content it had.
C5_FailureKeepsRetainedTopology ==
    [][ /\ (DeviceShardStep /\ Admitting(ShardAtHand, WorkDevices) = {})
               => (gp'.pc = "raised" /\ gp'.error = "PlannerError")
        /\ (gp'.pc = "raised"
               => (IF partitioner' = None THEN << >>
                   ELSE <<partitioner', topologies'[partitioner']>>)
                  = gp'.retained_at_entry) ]_vars

\* the call raised PlannerError on a later shard of a device-strategy
\* sharding option, after an earlier call had retained a topology and after
\* this call had debited its working copy
C5_Witness ==
    /\ gp.pc = "raised" /\ gp.error = "PlannerError"
    /\ gp.g > 1 /\ gp.g <= Len(gp.groups) /\ gp.s > 1
    /\ proposal[gp.groups[gp.g].sharding_options[1]].partition_by = "device"
    /\ partitioner # None
    /\ WorkDevices # gp.at_entry

\* C6: after a successful GreedyPerfPartitioner.partition, shard i of every
\* uniform sharding option has the rank of the device at position i of the
\* topology, however many uniform sharding options come before it.
C6_UniformExactness ==
    GreedyReturned =>
        \A u \in 1..Len(proposal) :
            proposal[u].partition_by = "uniform" =>
                /\ Len(proposal[u].shards) = Len(WorkDevices)
                /\ \A i \in 1..Len(proposal[u].shards) :
                       plans[0][u][i] = WorkDevices[i].rank

\* a successful call with two uniform sharding options, the second behind
\* another sharding option, and a device packer that reordered its list
C6_Witness ==
    /\ GreedyReturned
    /\ \E u, v \in 1..Len(proposal) :
          /\ u + 1 < v
          /\ proposal[u].partition_by = "uniform"
          /\ proposal[v].partition_by = "uniform"
    /\ gp.sorted_devices # [i \in 1..Len(WorkDevices) |-> i]

\* position of the device at topology position p in sorted_devices
ListPosition(p) == CHOOSE i \in 1..Len(gp.sorted_devices) : gp.sorted_devices[i] = p

\* C7: the greedy device-level packer gives each shard, in shard order, to
\* the device that has, at that moment, the smallest key (cost, rank mod
\* local_world_size) among the devices whose storage admits the shard, the
\* first of them in the device list among equal keys; that device alone is
\* debited; with no admitting device the packer raises.
C7_GreedyLeastLoaded ==
    [][ DeviceShardStep =>
          LET u     == Group.sharding_options[1]
              shard == ShardAtHand
              lws   == topologies[gp.work].local_world_size
              devs  == WorkDevices
              adm   == Admitting(shard, devs)
          IN  IF adm = {}
              THEN gp'.pc = "raised" /\ plans' = plans
              ELSE \E p \in adm :
                     /\ plans'[0][u][gp.s] = devs[p].rank
                     /\ \A q \in adm :
                          /\ ~KeyLess(<<devs[q].perf, devs[q].rank % lws>>,
                                      <<devs[p].perf, devs[p].rank % lws>>)
                          /\ (devs[q].perf = devs[p].perf
                              /\ devs[q].rank % lws = devs[p].rank % lws)
                                 => ListPosition(p) <= ListPosition(q)
                     /\ topologies'[gp.work].devices =
                            [devs EXCEPT ![p].storage = StorageSub(@, shard.storage),
                                         ![p].perf = @ + shard.perf] ]_vars

\* a shard has just been placed on a device although another device had a
\* strictly smaller cost: that device did not admit the shard
C7_Witness ==
    /\ DeviceShardStep
    /\ gp.s > 1
    /\ LET u     == Group.sharding_options[1]
           shard == proposal[u].shards[gp.s - 1]
           p     == PositionOf(WorkDevices, plans[0][u][gp.s - 1])
       IN  \E q \in 1..Len(WorkDevices) :
              /\ q # p
              /\ WorkDevices[q].perf < WorkDevices[p].perf - shard.perf
              /\ ~fits_in(shard.storage, WorkDevices[q].storage)

\* C8: the placement MemoryBalancedPartitioner.partition returns puts on
\* every device at most the HBM the device has in the caller's topology.
C8_ReturnedPlanFitsCaller ==
    mb.pc = "returned" =>
        \A p \in 1..Len(topologies[0].devices) :
            AssignedHbm(proposal, ReturnedPlan, topologies[0].devices[p].rank)
                <= topologies[0].devices[p].storage.hbm

\* C9: the cost of the placement MemoryBalancedPartitioner.partition returns
\* is at most the cost of the default plan times (1 + tolerance): it is not
\* greater than the floating-point product the program computes, and not
\* greater than the exact product with the tolerance num / den.
C9_ToleranceBound ==
    mb.pc = "returned" =>
        LET within(cost) ==
                /\ ~IntGreaterThanFloat(cost,
                        FloatMulInt(mb.original_plan_perf,
                            OnePlus(FloatDiv(config.tolerance.num, config.tolerance.den))))
                /\ cost * config.tolerance.den
                       <= mb.original_plan_perf * (config.tolerance.den + config.tolerance.num)
        IN  within(rate(proposal, ReturnedPlan, world_size(topologies[0])))

\* the search returned a plan that costs more than the default plan
C9_Witness ==
    /\ mb.pc = "returned"
    /\ mb.search_count > 0
    /\ rate(proposal, ReturnedPlan, world_size(topologies[0])) > mb.original_plan_perf

\* C10: the search makes at most max_search_count attempts and then
\* returns; every attempt tries a cap strictly inside the bracket, and
\* replaces min or max by it: min never decreases, max never increases.
C10_SearchBounded ==
    [][ /\ mb'.search_count <= config.max_search_count
        /\ (mb.pc = "loop" /\ mb'.pc = "attempt")
               => /\ mb'.search_count = mb.search_count + 1
                  /\ mb.min_hbm_per_device < mb'.mid_hbm_per_device
                  /\ mb'.mid_hbm_per_device < mb.max_hbm_per_device
        /\ (mb.pc = "attempt" /\ mb'.pc = "loop")
               => \/ /\ mb'.min_hbm_per_device = mb.mid_hbm_per_device
                     /\ mb'.max_hbm_per_device = mb.max_hbm_per_device
                  \/ /\ mb'.max_hbm_per_device = mb.mid_hbm_per_device
                     /\ mb'.min_hbm_per_device = mb.min_hbm_per_device
        /\ (mb.pc \in {"loop", "attempt"})
               => /\ mb'.min_hbm_per_device >= mb.min_hbm_per_device
                  /\ mb'.max_hbm_per_device <= mb.max_hbm_per_device
        /\ (mb.pc = "loop" /\ mb.search_count >= config.max_search_count)
               => mb'.pc = "returned" ]_vars

\* the search returned because the count ran out, the bracket still wide
C10_Witness ==
    /\ mb.pc = "returned"
    /\ mb.search_count = config.max_search_count
    /\ mb.min_hbm_per_device + MinBracket < mb.max_hbm_per_device

\* the plan has a rank for every shard
FullyAssigned(ranks) ==
    \A u \in 1..Len(ranks) : \A i \in 1..Len(ranks[u]) : ranks[u][i] # None

\* the step of MemoryBalancedPartitioner.partition that accepts an attempt
AcceptStep ==
    mb.pc = "attempt" /\ mb'.pc = "loop" /\ mb'.max_hbm_per_device = mb.mid_hbm_per_device

\* C11: MemoryBalancedPartitioner.partition returns, shard for shard, the
\* ranks of the most recently accepted attempt, or of the baseline if no
\* attempt was accepted: default_plan takes the ranks of the proposal when
\* the baseline returns and when an attempt is accepted, no other step
\* changes a rank of it (not the reset of the ranks, not an attempt that is
\* rejected or fails partway), and the plan returned has a rank for every
\* shard.
C11_ReturnsLastAccepted ==
    [][ /\ (mb.pc = "baseline" /\ mb'.pc = "loop") => ReturnedPlan' = plans[0]
        /\ AcceptStep => ReturnedPlan' = plans[0]
        /\ (mb.default_plan # None /\ ~AcceptStep) => ReturnedPlan' = ReturnedPlan
        /\ mb'.pc = "returned" => FullyAssigned(ReturnedPlan') ]_vars

\* the search returned the plan of an accepted attempt after a later
\* attempt failed partway and left the proposal with other ranks, some unset
C11_Witness ==
    /\ mb.pc = "returned"
    /\ mb.max_hbm_per_device # topologies[0].devices[1].storage.hbm
    /\ mb.min_hbm_per_device = mb.mid_hbm_per_device
    /\ ~FullyAssigned(plans[0])
    /\ \E u \in 1..Len(proposal) : \E i \in 1..Len(proposal[u].shards) :
          plans[0][u][i] # None /\ plans[0][u][i] # ReturnedPlan[u][i]

\* C12: a PlannerError of an attempt at cap mid (a shard that fits on no
\* device, a group that fits on no host) is not raised to the caller of
\* MemoryBalancedPartitioner.partition: min becomes mid, max and
\* default_plan stay, and the loop goes on from there; partition never
\* raises a PlannerError once the search has begun.
C12_AttemptFailureTightens ==
    [][ /\ (mb.pc = "attempt" /\ gp.pc = "raised" /\ gp.error = "PlannerError")
              => /\ mb'.pc = "loop"
                 /\ mb'.error = ""
                 /\ mb'.min_hbm_per_device = mb.mid_hbm_per_device
                 /\ mb'.max_hbm_per_device = mb.max_hbm_per_device
                 /\ mb'.default_plan = mb.default_plan
                 /\ ReturnedPlan' = ReturnedPlan
        /\ (mb'.pc = "raised" /\ mb'.search_count > 0)
              => mb'.error # "PlannerError" ]_vars

\* an attempt on a proposal with a co-location group has just failed and
\* left shards without a rank, the bracket is tightened from below and the
\* search goes on
C12_Witness ==
    /\ mb.pc = "loop" /\ gp.pc = "idle"
    /\ mb.search_count > 0
    /\ mb.min_hbm_per_device = mb.mid_hbm_per_device
    /\ ~FullyAssigned(plans[0])
    /\ HasUnit("host")
    /\ SearchGoesOn

\* the step of GreedyCohost: the co-location packer on the group at hand
CohostStep == AtGroup /\ FirstOfGroup.partition_by = "host"

\* the hosts of the working topology, as lists of device positions
WorkHosts ==
    host_level_devices(world_size(topologies[gp.work]),
                       topologies[gp.work].local_world_size)

\* the remaining storage of a host: the sum over its devices
HostStorage(host) ==
    Storage(SeqSum([i \in 1..Len(host) |-> WorkDevices[host[i]].storage.hbm]),
            SeqSum([i \in 1..Len(host) |-> WorkDevices[host[i]].storage.ddr]))

\* what a trial of the group at hand on the devices of a host ends in
TrialOn(host) ==
    CohostTrial(proposal, Group.sharding_options, 1,
                [i \in 1..Len(host) |-> WorkDevices[host[i]]], plans[0])

\* the host does not admit the group: the group's storage sum exceeds what
\* the host has left, or a shard finds no device in the trial
RejectsForCapacity(host) ==
    \/ ~fits_in(Group.storage_sum, HostStorage(host))
    \/ TrialOn(host).status = "PlannerError"

\* C13: if the storage sum of a co-location group fits in the remaining
\* storage of no host, the packer tries no host (no rank is written, no
\* device is debited) and GreedyPerfPartitioner.partition raises
\* PlannerError; and the packer raises PlannerError exactly when every host
\* rejects the group for capacity.
C13_NoHostAdmits ==
    [][ CohostStep =>
          /\ (\A h \in 1..Len(WorkHosts) :
                  ~fits_in(Group.storage_sum, HostStorage(WorkHosts[h])))
                => /\ gp'.pc = "raised" /\ gp'.error = "PlannerError"
                   /\ plans' = plans
                   /\ topologies' = topologies
                   /\ gp'.abandoned = gp.abandoned
          /\ (gp'.pc = "raised" /\ gp'.error = "PlannerError")
                <=> (\A h \in 1..Len(WorkHosts) : RejectsForCapacity(WorkHosts[h])) ]_vars

\* the packer has just raised on a group of several sharding options whose
\* storage sum no host has left, though every device admits the group's
\* first shard
C13_Witness ==
    /\ gp.pc = "raised" /\ gp.error = "PlannerError"
    /\ gp.g >= 1 /\ gp.g <= Len(gp.groups)
    /\ LET group == gp.groups[gp.g]
           first == proposal[group.sharding_options[1]]
       IN  /\ first.partition_by = "host"
           /\ Len(group.sharding_options) > 1
           /\ \A h \in 1..Len(WorkHosts) :
                  ~fits_in(group.storage_sum, HostStorage(WorkHosts[h]))
           /\ \A p \in 1..Len(WorkDevices) :
                  fits_in(first.shards[1].storage, WorkDevices[p].storage)

\* the run is on the example of the docstring
IsExample == proposal = ExampleProposal /\ topologies[0] = ExampleTopology

\* C14: on the example of the docstring (Topology(world_size=2), two uniform
\* sharding options of storage and cost 1 and 2 per shard, two device
\* sharding options of 3 and 4) no call raises; when the loop over the
\* groups begins the two uniform sharding options are placed, shard i on
\* rank i-1, both devices have cost 1+2 and no device shard has a rank; and
\* when the call returns each device sharding option has its two shards on
\* two different devices and both devices have cost 1+2+3+4 = 10.
C14_DocstringExample ==
    IsExample =>
        /\ gp.pc # "raised" /\ mb.pc # "raised"
        /\ (gp.pc = "groups" /\ gp.g = 1 /\ gp.s = 1)
              => /\ \A u \in {1, 2} : plans[0][u] = <<0, 1>>
                 /\ \A u \in {3, 4} : plans[0][u] = <<None, None>>
                 /\ \A p \in {1, 2} : WorkDevices[p].perf = 1 + 2
        /\ GreedyReturned
              => /\ \A u \in {3, 4} :
                        /\ plans[0][u][1] # plans[0][u][2]
                        /\ {plans[0][u][1], plans[0][u][2]} = {0, 1}
                 /\ \A p \in {1, 2} : WorkDevices[p].perf = 1 + 2 + 3 + 4

\* the first call on the example has returned
C14_Witness ==
    /\ IsExample
    /\ GreedyReturned
    /\ mb.pc = "baseline"
    /\ FullyAssigned(plans[0])

\* the order of Storage values: by hbm, then by ddr
StorageLess(a, b) == a.hbm < b.hbm \/ (a.hbm = b.hbm /\ a.ddr < b.ddr)

\* the key a sharding option is grouped by: its dependency, or its own name
KeyOf(u) == IF proposal[u].dependency # "" THEN proposal[u].dependency
            ELSE proposal[u].fqn

\* the sharding options of a group, as a set
Members(group) == {group.sharding_options[k] : k \in 1..Len(group.sharding_options)}

NonUniform == {u \in 1..Len(proposal) : proposal[u].partition_by # "uniform"}
Uniform == {u \in 1..Len(proposal) : proposal[u].partition_by = "uniform"}

\* every shard of the sharding option has a rank / none has
Placed(u) == \A i \in 1..Len(proposal[u].shards) : plans[0][u][i] # None
Untouched(u) == \A i \in 1..Len(proposal[u].shards) : plans[0][u][i] = None

\* the groups of a call are those of the proposal: every sharding option
\* that is not uniform is in one group, with those of its key, in proposal
\* order, and the sum of the group is the sum of their storage
GroupsWellFormed(groups) ==
    /\ \A u \in NonUniform : \E g \in 1..Len(groups) : u \in Members(groups[g])
    /\ \A g \in 1..Len(groups) :
          /\ Members(groups[g]) # {}
          /\ Members(groups[g]) \subseteq NonUniform
          /\ Members(groups[g]) =
                 {u \in NonUniform : KeyOf(u) = KeyOf(groups[g].sharding_options[1])}
          /\ \A k \in 1..(Len(groups[g].sharding_options) - 1) :
                 groups[g].sharding_options[k] < groups[g].sharding_options[k + 1]
          /\ groups[g].storage_sum =
                 Storage(SeqSum([u \in 1..Len(proposal) |->
                             IF u \in Members(groups[g])
                             THEN total_storage(proposal[u]).hbm ELSE 0]),
                         SeqSum([u \in 1..Len(proposal) |->
                             IF u \in Members(groups[g])
                             THEN total_storage(proposal[u]).ddr ELSE 0]))
    /\ \A g, h \in 1..Len(groups) : g # h => Members(groups[g]) \cap Members(groups[h]) = {}

\* C15: GreedyPerfPartitioner.partition places the uniform sharding options,
\* in proposal order, before any group; the groups are the sharding options
\* that are not uniform, grouped by dependency (a sharding option without a
\* dependency is a group of its own), ordered by storage sum, largest first,
\* equal sums in the order of their first sharding option in the proposal;
\* and the groups are placed in that order.
C15_PlacementOrder ==
    /\ gp.pc = "uniform" => \A u \in 1..Len(proposal) : Untouched(u)
    /\ (gp.pc = "raised" /\ gp.g = 0)
          => /\ \A u \in NonUniform : Untouched(u)
             /\ \A u, v \in Uniform : (u < v /\ ~Untouched(v)) => Placed(u)
    /\ (gp.pc \in {"groups", "returned", "raised"} /\ gp.g >= 1)
          => /\ GroupsWellFormed(gp.groups)
             /\ \A u \in NonUniform :
                    proposal[u].dependency = ""
                       => \E g \in 1..Len(gp.groups) : gp.groups[g].sharding_options = <<u>>
             /\ \A g, h \in 1..Len(gp.groups) :
                    g < h => /\ ~StorageLess(gp.groups[g].storage_sum,
                                             gp.groups[h].storage_sum)
                             /\ gp.groups[g].storage_sum = gp.groups[h].storage_sum
                                   => gp.groups[g].sharding_options[1]
                                         < gp.groups[h].sharding_options[1]
             /\ \A u \in Uniform : Placed(u)
             /\ \A g \in 1..Len(gp.groups) : \A u \in Members(gp.groups[g]) :
                    /\ g < gp.g => Placed(u)
                    /\ g > gp.g => Untouched(u)

\* the second of three groups is being placed: the first, the largest, is
\* placed, the third is not, two of the groups have the same storage sum,
\* and the order of the groups is not the order of the proposal
C15_Witness ==
    /\ gp.pc = "groups" /\ gp.g = 2 /\ Len(gp.groups) = 3
    /\ \E g, h \in 1..3 :
          /\ g < h
          /\ gp.groups[g].storage_sum = gp.groups[h].storage_sum
    /\ \E g, h \in 1..3 :
          /\ g < h
          /\ gp.groups[g].sharding_options[1] > gp.groups[h].sharding_options[1]

\* the accumulated cost of a host of the working topology
HostCost(host) == SeqSum([i \in 1..Len(host) |-> WorkDevices[host[i]].perf])

\* host g is tried before host h: smaller cost, or equal cost and earlier
\* in the topology
TriedBefore(g, h) ==
    \/ HostCost(WorkHosts[g]) < HostCost(WorkHosts[h])
    \/ HostCost(WorkHosts[g]) = HostCost(WorkHosts[h]) /\ g < h

\* the trial of the group at hand succeeds on the host
TrialSucceeds(host) ==
    /\ fits_in(Group.storage_sum, HostStorage(host))
    /\ TrialOn(host).status = "ok"

\* C16: a co-location packer call that succeeds changes the devices of one
\* host only: the first host, by ascending accumulated cost at the start of
\* the call, on which the trial of the whole group succeeds.  Every device
\* of that host takes the storage and the cost of the trial copy of its
\* rank; every device of every other host, skipped or tried in vain, keeps
\* its storage and its cost.
C16_OneHostCommitted ==
    [][ (CohostStep /\ gp'.pc = "groups") =>
          \E h \in 1..Len(WorkHosts) :
             /\ TrialSucceeds(WorkHosts[h])
             /\ \A g \in 1..Len(WorkHosts) :
                    TriedBefore(g, h) => ~TrialSucceeds(WorkHosts[g])
             /\ \A p \in 1..Len(WorkDevices) :
                    IF \E i \in 1..Len(WorkHosts[h]) : WorkHosts[h][i] = p
                    THEN \E i \in 1..Len(WorkHosts[h]) :
                            LET copy == TrialOn(WorkHosts[h]).devices[i]
                            IN  /\ copy.rank = WorkDevices[p].rank
                                /\ topologies'[gp.work].devices[p] =
                                       [WorkDevices[p] EXCEPT !.storage = copy.storage,
                                                              !.perf = copy.perf]
                    ELSE topologies'[gp.work].devices[p] = WorkDevices[p]
             /\ \E i \in 1..Len(WorkHosts[h]) :
                    topologies'[gp.work].devices[WorkHosts[h][i]]
                        # WorkDevices[WorkHosts[h][i]] ]_vars

\* a group has just been placed on the second host with no trial abandoned,
\* while the first host, of greater cost, still has room for the storage sum
\* of the group
C16_Witness ==
    /\ gp.pc = "groups" /\ gp.g > 1
    /\ gp.abandoned = 0
    /\ Len(WorkHosts) = 2
    /\ LET group == gp.groups[gp.g - 1]
       IN  /\ proposal[group.sharding_options[1]].partition_by = "host"
           /\ Len(group.sharding_options) > 1
           /\ \A u \in Members(group) : \A i \in 1..Len(proposal[u].shards) :
                  plans[0][u][i] >= 2
           /\ fits_in(group.storage_sum, HostStorage(WorkHosts[1]))
           /\ HostCost(WorkHosts[1]) > 0

\* C17: a row-wise sharding option of a co-location group has shard i on
\* the i-th device, in rank order, of the host the group is placed on,
\* whatever was placed before it in the trial of that host.
C17_CohostRowWiseInRankOrder ==
    GreedyReturned =>
        \A u \in 1..Len(proposal) :
            (proposal[u].partition_by = "host"
             /\ proposal[u].sharding_type = "table_row_wise")
            => LET lws  == topologies[gp.work].local_world_size
                   host == plans[0][u][1] \div lws
               IN  \A i \in 1..Len(proposal[u].shards) :
                       plans[0][u][i] = host * lws + (i - 1)

\* the sharding option breaks a structural precondition of the co-location
\* packer on hosts of n devices: a sharding type it does not know, or a
\* row-wise option that has not one shard per device of the host
CohostFault(u, n) ==
    \/ proposal[u].sharding_type \notin {"table_row_wise", "table_column_wise"}
    \/ /\ proposal[u].sharding_type = "table_row_wise"
       /\ Len(proposal[u].shards) # n

\* the uniform sharding option has not one shard per device
UniformFault(u) ==
    /\ proposal[u].partition_by = "uniform"
    /\ Len(proposal[u].shards) # Len(WorkDevices)

\* C18: a structural fault is not a capacity failure and nothing absorbs
\* it.  A uniform sharding option with a wrong shard count makes the call
\* raise, RuntimeError if it is the first uniform one; a group whose
\* strategy is neither host nor device raises RuntimeError; a co-location
\* group with a faulty sharding option never succeeds, and when the fault
\* is in its first sharding option the first host that passes the aggregate
\* check raises RuntimeError with no host abandoned, no rank written and no
\* device changed; and every error of GreedyPerfPartitioner.partition other
\* than PlannerError ends MemoryBalancedPartitioner.partition with that
\* error, the bracket as it was, and nothing runs after it.
C18_FaultsPropagate ==
    [][ /\ (gp.pc = "uniform" /\ \E u \in 1..Len(proposal) : UniformFault(u))
              => /\ gp'.pc = "raised"
                 /\ (\E u \in Uniform : UniformFault(u) /\ \A v \in Uniform : u <= v)
                       => gp'.error = "RuntimeError"
        /\ (AtGroup /\ FirstOfGroup.partition_by \notin {"host", "device"})
              => (gp'.pc = "raised" /\ gp'.error = "RuntimeError")
        /\ (CohostStep /\ \E u \in Members(Group) :
                             CohostFault(u, topologies[gp.work].local_world_size))
              => /\ gp'.pc = "raised"
                 /\ (/\ CohostFault(Group.sharding_options[1],
                                    topologies[gp.work].local_world_size)
                     /\ \E h \in 1..Len(WorkHosts) :
                            fits_in(Group.storage_sum, HostStorage(WorkHosts[h])))
                       => /\ gp'.error = "RuntimeError"
                          /\ gp'.abandoned = gp.abandoned
                          /\ plans' = plans
                          /\ topologies' = topologies
        /\ (gp.pc = "raised" /\ gp.error # "PlannerError" /\ mb.pc # "raised")
              => /\ mb'.pc = "raised" /\ mb'.error = gp.error
                 /\ mb'.min_hbm_per_device = mb.min_hbm_per_device
                 /\ mb'.max_hbm_per_device = mb.max_hbm_per_device
                 /\ mb'.search_count = mb.search_count
        /\ mb.pc = "raised" => FALSE ]_vars

\* MemoryBalancedPartitioner.partition has raised the RuntimeError of a
\* co-location group of several sharding options whose first one is faulty;
\* no host was abandoned
C18_Witness ==
    /\ mb.pc = "raised" /\ mb.error = "RuntimeError"
    /\ gp.g >= 1 /\ gp.g <= Len(gp.groups)
    /\ gp.abandoned = 0
    /\ LET group == gp.groups[gp.g]
       IN  /\ proposal[group.sharding_options[1]].partition_by = "host"
           /\ CohostFault(group.sharding_options[1], topologies[gp.work].local_world_size)
           /\ Len(group.sharding_options) > 1

\* the storage and the cost of the shards of a group that a rank table
\* places on a rank
GroupHbm(group, ranks, rank) ==
    SeqSum([u \in 1..Len(proposal) |->
        IF u \in Members(group) THEN AssignedHbm(<<proposal[u]>>, <<ranks[u]>>, rank)
        ELSE 0])

GroupDdr(group, ranks, rank) ==
    SeqSum([u \in 1..Len(proposal) |->
        IF u \in Members(group) THEN AssignedDdr(<<proposal[u]>>, <<ranks[u]>>, rank)
        ELSE 0])

GroupPerf(group, ranks, rank) ==
    SeqSum([u \in 1..Len(proposal) |->
        IF u \in Members(group) THEN AssignedPerf(<<proposal[u]>>, <<ranks[u]>>, rank)
        ELSE 0])

\* C19: when the co-location packer succeeds on a host after it abandoned
\* the trial of one or more other hosts, no shard of the group keeps a rank
\* of an abandoned trial: every shard of every sharding option of the group
\* has a rank of the committed host, and every device is debited the
\* storage and charged the cost of just the shards of the group that have
\* its rank (nothing on the other hosts).
C19_NoRankOfAbandonedTrial ==
    [][ (CohostStep /\ gp'.pc = "groups" /\ gp'.abandoned > gp.abandoned) =>
          /\ \E h \in 1..Len(WorkHosts) :
                \A u \in Members(Group) : \A i \in 1..Len(proposal[u].shards) :
                    \E k \in 1..Len(WorkHosts[h]) :
                        plans'[0][u][i] = WorkDevices[WorkHosts[h][k]].rank
          /\ \A p \in 1..Len(WorkDevices) :
                LET d == WorkDevices[p]
                    e == topologies'[gp.work].devices[p]
                IN  /\ e.rank = d.rank
                    /\ e.storage.hbm = d.storage.hbm - GroupHbm(Group, plans'[0], d.rank)
                    /\ e.storage.ddr = d.storage.ddr - GroupDdr(Group, plans'[0], d.rank)
                    /\ e.perf = d.perf + GroupPerf(Group, plans'[0], d.rank) ]_vars

\* a group of a column-wise and a row-wise sharding option has just been
\* placed on the second host after the trial of the first host was
\* abandoned; the first host would have admitted the first of the two alone
C19_Witness ==
    /\ gp.pc = "groups" /\ gp.g > 1
    /\ gp.abandoned > 0
    /\ Len(WorkHosts) = 2
    /\ LET group == gp.groups[gp.g - 1]
           first == proposal[group.sharding_options[1]]
       IN  /\ first.partition_by = "host"
           /\ first.sharding_type = "table_column_wise"
           /\ Len(group.sharding_options) > 1
           /\ \A u \in Members(group) : \A i \in 1..Len(proposal[u].shards) :
                  plans[0][u][i] >= 2
           /\ \A k \in 1..2 :
                  fits_in(first.shards[1].storage, WorkDevices[WorkHosts[1][k]].storage)

\* an attempt of the search is running: the call of line 371 is entered and
\* has not yet been answered
InAttempt == mb.pc = "attempt" /\ gp.pc # "idle"

\* C20: the attempts of the search are independent.  When the partitioner
\* is called for an attempt every shard of the proposal is without a rank,
\* and the topology it is given, and so the working copy it starts from,
\* has on every device the HBM mid, and the DDR, the cost and the rank the
\* device has in the caller's topology: nothing that the baseline run or an
\* earlier attempt debited, charged or assigned is left.
C20_AttemptsIndependent ==
    /\ (InAttempt /\ gp.pc \in {"enter", "uniform"}) =>
          \A u \in 1..Len(proposal) : Untouched(u)
    /\ InAttempt =>
          /\ Len(topologies[gp.arg].devices) = Len(topologies[0].devices)
          /\ \A p \in 1..Len(topologies[0].devices) :
                topologies[gp.arg].devices[p] =
                    [topologies[0].devices[p] EXCEPT
                        !.storage.hbm = mb.mid_hbm_per_device]
    /\ (InAttempt /\ gp.pc # "enter") => gp.at_entry = topologies[gp.arg].devices
    /\ (InAttempt /\ gp.pc = "uniform") => WorkDevices = gp.at_entry

\* the second attempt is about to start, after a baseline and a first
\* attempt that debited and charged their working copies and assigned every
\* rank
C20_Witness ==
    /\ InAttempt /\ gp.pc = "uniform"
    /\ mb.search_count = 2
    /\ FullyAssigned(ReturnedPlan)
    /\ partitioner # None
    /\ \E p \in 1..Len(topologies[partitioner].devices) :
          topologies[partitioner].devices[p].perf > 0

====
